---- MODULE Spec2Model ----
(***************************************************************************)
(* Model of src/main.rs: a command-line exerciser of an S3-compatible      *)
(* bucket.  main loads config.toml, builds a client, lists the bucket,     *)
(* then uploads, heads and deletes the fixed key test_file.txt.            *)
(*                                                                         *)
(* A run of the program is identified by r \in runs.  Spec has one run;    *)
(* SpecConcurrent has one or two runs of the same program against the same *)
(* bucket.  The storage service and the SDK's send() are the environment:  *)
(* a set of stored keys, paged listing, and a fault chosen per request.    *)
(* Object keys are numbered 1..MaxKeys in the service's listing order.     *)
(***************************************************************************)
EXTENDS Naturals, Sequences, FiniteSets

\* ---------------------------------------------------------------- bounds
\* Number of distinct object keys the bucket may hold.
MaxKeys == 5

\* Objects per page of a list_objects_v2 response (the service's max-keys).
PageSize == 2

\* ------------------------------------------------------- program constants
\* "test_file.txt", the key main uploads, heads and deletes.
TestFile == 3

\* Exit status when main returns.
ExitOk == 0

\* Variant of ExitListFailure: the failed listing exits like a normal return.
ExitListFailureAsOk == ExitOk

\* std::process::exit(1) after a failed listing.
ExitListFailure == 1

\* Exit status of a process whose main thread panicked (unwrap on None/Err).
ExitPanic == 101

Keys == 1..MaxKeys

RunIds == {"r1", "r2"}

\* Outcome of one send(): no fault, the service rejects the request, the
\* request never reaches the service, or the answer is lost after the
\* service applied the request.
Faults == {"none", "denied", "dispatch", "timeout"}

VARIABLES
    runs,           \* the runs of the program that exist
    configFile,     \* config.toml on disk
    store,          \* keys of the objects in the bucket at the service
    omitKeyOf,      \* object whose Key the service leaves out of listings (0: none)
    localFile,      \* whether test_file.txt opens in each run's working directory
    pc,             \* each run's position in main
    configuration,  \* each run's S3Configuration
    aws_client,     \* each run's Client
    files,          \* each run's list_objects_v2 result (bucketlist)
    calls,          \* each run's calls of s3_upload_file/s3_head_file/s3_delete_file
    sent,           \* each run's requests sent to the service
    stdout,         \* each run's standard output
    stderr,         \* each run's standard error
    exitCode        \* each run's exit status once pc = "exited"

vars == <<runs, configFile, store, omitKeyOf, localFile, pc, configuration, aws_client,
          files, calls, sent, stdout, stderr, exitCode>>

\* ------------------------------------------------------------- helpers
Some(v) == [some |-> TRUE, val |-> v]

NoneStr == [some |-> FALSE, val |-> ""]

NoneKey == [some |-> FALSE, val |-> 0]

MinOf(S) == CHOOSE x \in S : \A y \in S : x <= y

RECURSIVE SortedSeq(_)
SortedSeq(S) == IF S = {} THEN <<>> ELSE <<MinOf(S)>> \o SortedSeq(S \ {MinOf(S)})

MinNat(a, b) == IF a <= b THEN a ELSE b

\* Result<String, S3Result>: Ok(text) or Err(variant(text)).
Ok(text) == [tag |-> "Ok", variant |-> "String", text |-> text]

Err(variant, text) == [tag |-> "Err", variant |-> variant, text |-> text]

\* A line of eprintln!/the panic handler that is not a Result.
ErrLine(text) == [tag |-> "line", variant |-> "-", text |-> text]

\* A line of println!: its text and, for a listed object, the key.
Line(text) == [text |-> text, key |-> 0]

KeyLine(k) == [text |-> "{}", key |-> k]

Request(op, bucket_name, k) == [op |-> op, bucket |-> bucket_name, key |-> k, token |-> NoneKey]

\* ------------------------------------------------------- configuration
\* Contents of config.toml: whether the file opens, reads as UTF-8 and
\* parses as TOML, and the value of each key (NoneStr: the key is absent).
ValidUri == "http://localhost:9000"

InvalidUri == "not a uri"

ConfigFileOk ==
    [status : {"ok"},
     backup_s3_access_key_id : {NoneStr, Some("AKID")},
     backup_s3_secret_access_key : {NoneStr, Some("SECRET")},
     backup_s3_bucket : {NoneStr, Some("test-bucket")},
     backup_s3_region : {NoneStr, Some("us-east-1")},
     backup_s3_endpoint : {NoneStr, Some(ValidUri), Some(InvalidUri)}]

ConfigFileBad ==
    [status : {"missing", "nonutf8", "badtoml"},
     backup_s3_access_key_id : {NoneStr},
     backup_s3_secret_access_key : {NoneStr},
     backup_s3_bucket : {NoneStr},
     backup_s3_region : {NoneStr},
     backup_s3_endpoint : {NoneStr}]

ConfigFiles == ConfigFileOk \cup ConfigFileBad

\* The String fields of struct S3Configuration: serde requires each of them.
MandatoryFields(file) ==
    <<file.backup_s3_access_key_id, file.backup_s3_secret_access_key,
      file.backup_s3_bucket, file.backup_s3_region>>

\* Variant of MissingMandatory: backup_s3_bucket and backup_s3_region are
\* not required (as if declared with a serde default).
MissingMandatoryKeysOnly(file) == \E i \in 1..2 : ~MandatoryFields(file)[i].some

MissingMandatory(file) == \E i \in 1..4 : ~MandatoryFields(file)[i].some

NoConfiguration ==
    [backup_s3_access_key_id |-> "", backup_s3_secret_access_key |-> "",
     backup_s3_bucket |-> "", backup_s3_region |-> "",
     backup_s3_endpoint |-> NoneStr]

\* S3Configuration::new: open config.toml (unwrap), read it (unwrap),
\* deserialize it (eprintln on error, then unwrap).
S3ConfigurationNew(file) ==
    IF file.status = "missing"
    THEN [panicked |-> TRUE, value |-> NoConfiguration,
          err |-> <<ErrLine(<<"panicked: unwrap on Err", "File::open">>)>>]
    ELSE IF file.status = "nonutf8"
    THEN [panicked |-> TRUE, value |-> NoConfiguration,
          err |-> <<ErrLine(<<"panicked: unwrap on Err", "read_to_string">>)>>]
    ELSE IF file.status = "badtoml" \/ MissingMandatory(file)
    THEN [panicked |-> TRUE, value |-> NoConfiguration,
          err |-> <<ErrLine(<<"Failed to load config file: ", "toml::de::Error">>),
                    ErrLine(<<"panicked: unwrap on Err", "()">>)>>]
    ELSE [panicked |-> FALSE,
          value |-> [backup_s3_access_key_id |-> file.backup_s3_access_key_id.val,
                     backup_s3_secret_access_key |-> file.backup_s3_secret_access_key.val,
                     backup_s3_bucket |-> file.backup_s3_bucket.val,
                     backup_s3_region |-> file.backup_s3_region.val,
                     backup_s3_endpoint |-> file.backup_s3_endpoint],
          err |-> <<>>]

\* Credentials::from_keys(access_key_id, secret_access_key, None).
CredentialsFromKeys(access_key_id, secret_access_key) ==
    [access_key_id |-> access_key_id, secret_access_key |-> secret_access_key,
     session_token |-> NoneStr]

NoClient ==
    [credentials |-> CredentialsFromKeys("", ""), region |-> "", endpoint |-> ""]

DefaultEndpoint == "default"

\* Uri::from_str
UriFromStr(s) == [ok |-> s = ValidUri, uri |-> s]

\* get_client: the endpoint resolver is set only for Some(endpoint), whose
\* text must parse as a Uri (unwrap).
get_client(creds, region, endpoint) ==
    IF endpoint.some
    THEN IF UriFromStr(endpoint.val).ok
         THEN [panicked |-> FALSE,
               client |-> [credentials |-> creds, region |-> region,
                           endpoint |-> UriFromStr(endpoint.val).uri]]
         ELSE [panicked |-> TRUE, client |-> NoClient]
    ELSE [panicked |-> FALSE,
          client |-> [credentials |-> creds, region |-> region,
                      endpoint |-> DefaultEndpoint]]

\* ------------------------------------------ the SDK's send() and the service
\* The SdkError a failed send() yields, as {:?} prints it.
SdkError(fault) ==
    IF fault = "denied" THEN "ServiceError(AccessDenied)"
    ELSE IF fault = "dispatch" THEN "DispatchFailure"
    ELSE "TimeoutError"

NotFoundError == "ServiceError(NotFound)"

NoContents == [some |-> FALSE, val |-> <<>>]

\* An Object of a listing: its key is Option<String>.
Object(k, omit) == [key |-> IF k = omit THEN NoneKey ELSE Some(k)]

\* list_objects_v2().bucket(..).send(): the service answers one page of at
\* most PageSize objects starting after the request's continuation token
\* (from the first object when the request carries none), and a next
\* continuation token when objects remain.
list_objects_v2_send(req, fault, st, omit) ==
    LET all == SortedSeq(st)
        start == IF req.token.some THEN req.token.val ELSE 0
        end == MinNat(start + PageSize, Len(all))
    IN  IF fault # "none"
        THEN [ok |-> FALSE, err |-> SdkError(fault), contents |-> NoContents,
              is_truncated |-> FALSE, next_continuation_token |-> NoneKey]
        ELSE [ok |-> TRUE, err |-> "",
              contents |-> IF start < end
                           THEN Some([i \in 1..(end - start) |-> Object(all[start + i], omit)])
                           ELSE NoContents,
              is_truncated |-> end < Len(all),
              next_continuation_token |-> IF end < Len(all) THEN Some(end) ELSE NoneKey]

\* head_object().key(..).bucket(..).send(): HTTP 404 when the key is not stored.
head_object_send(req, fault, st) ==
    [resp |-> IF fault # "none" THEN [ok |-> FALSE, err |-> SdkError(fault)]
              ELSE IF req.key \in st THEN [ok |-> TRUE, err |-> ""]
              ELSE [ok |-> FALSE, err |-> NotFoundError],
     store |-> st]

\* put_object().key(..).bucket(..).body(..).send(): stores the key unless the
\* service rejected the request or never received it.
put_object_send(req, fault, st) ==
    [resp |-> IF fault = "none" THEN [ok |-> TRUE, err |-> ""]
              ELSE [ok |-> FALSE, err |-> SdkError(fault)],
     store |-> IF fault \in {"none", "timeout"} THEN st \cup {req.key} ELSE st]

\* delete_object().key(..).bucket(..).send(): removes the key (success also
\* when the key was not stored) unless rejected or never received.
delete_object_send(req, fault, st) ==
    [resp |-> IF fault = "none" THEN [ok |-> TRUE, err |-> ""]
              ELSE [ok |-> FALSE, err |-> SdkError(fault)],
     store |-> IF fault \in {"none", "timeout"} THEN st \ {req.key} ELSE st]

\* ------------------------------------------------------ the operations
\* Variant of HeadMatch: a 404 answer gets a variant of its own.
HeadMatchNotFound(head) ==
    IF head.ok THEN Ok(<<"HeadObjectOutput">>)
    ELSE IF head.err = NotFoundError
    THEN Err("NotFound", <<"Failed head_object() file: ", head.err>>)
    ELSE Err("HeadError", <<"Failed head_object() file: ", head.err>>)

\* match head { Ok(response) => Ok(..), Err(error) => Err(HeadError(..)) }
HeadMatch(head) ==
    IF head.ok THEN Ok(<<"HeadObjectOutput">>)
    ELSE Err("HeadError", <<"Failed head_object() file: ", head.err>>)

\* Variant of s3_head_file: a failed request is sent once more.
s3_head_file_retry(filename, client, bucket_name, fault, st) ==
    LET req == Request("HeadObject", bucket_name, filename)
        head == head_object_send(req, fault, st)
    IN  [ret |-> HeadMatch(head.resp),
         exchanges |-> IF head.resp.ok
                       THEN <<[req |-> req, resp |-> head.resp]>>
                       ELSE <<[req |-> req, resp |-> head.resp],
                              [req |-> req, resp |-> head.resp]>>,
         store |-> head.store]

\* s3_head_file: one head_object request, its answer mapped by HeadMatch.
s3_head_file(filename, client, bucket_name, fault, st) ==
    LET req == Request("HeadObject", bucket_name, filename)
        head == head_object_send(req, fault, st)
    IN  [ret |-> HeadMatch(head.resp),
         exchanges |-> <<[req |-> req, resp |-> head.resp]>>,
         store |-> head.store]

\* Variant of UploadMatch: the error of a failed upload is dropped.
UploadMatchAlwaysOk(upload) == Ok(<<"PutObjectOutput">>)

\* match upload { Ok(response) => Ok(..), Err(error) => Err(UploadFailure(..)) }
UploadMatch(upload) ==
    IF upload.ok THEN Ok(<<"PutObjectOutput">>)
    ELSE Err("UploadFailure", <<"Failed to upload file: ", upload.err>>)

\* Variant of s3_upload_file: a file that does not open is uploaded as an
\* empty body instead of returning early.
s3_upload_file_empty_body(filename, client, bucket_name, fileOpens, fault, st) ==
    LET req == Request("PutObject", bucket_name, filename)
        upload == put_object_send(req, fault, st)
    IN  [ret |-> UploadMatch(upload.resp),
         exchanges |-> <<[req |-> req, resp |-> upload.resp]>>,
         store |-> upload.store]

\* s3_upload_file: ByteStream::from_path first; an error there returns
\* FileOpenFail before any request is built.  Otherwise one put_object.
s3_upload_file(filename, client, bucket_name, fileOpens, fault, st) ==
    IF ~fileOpens
    THEN [ret |-> Err("FileOpenFail", <<"Failed to open file: ", "io::Error">>),
          exchanges |-> <<>>,
          store |-> st]
    ELSE LET req == Request("PutObject", bucket_name, filename)
             upload == put_object_send(req, fault, st)
         IN  [ret |-> UploadMatch(upload.resp),
              exchanges |-> <<[req |-> req, resp |-> upload.resp]>>,
              store |-> upload.store]

\* Variant of DeleteMatch: the error is wrapped in the upload's variant.
DeleteMatchAsUpload(delete) ==
    IF delete.ok THEN Ok(<<"DeleteObjectOutput">>)
    ELSE Err("UploadFailure", <<"Failed to upload file: ", delete.err>>)

\* match delete { Ok(response) => Ok(..), Err(error) => Err(DeleteFailure(..)) }
DeleteMatch(delete) ==
    IF delete.ok THEN Ok(<<"DeleteObjectOutput">>)
    ELSE Err("DeleteFailure", <<"Failed to upload file: ", delete.err>>)

\* s3_delete_file: one delete_object request, its answer mapped by DeleteMatch.
s3_delete_file(filename, client, bucket_name, fault, st) ==
    LET req == Request("DeleteObject", bucket_name, filename)
        delete == delete_object_send(req, fault, st)
    IN  [ret |-> DeleteMatch(delete.resp),
         exchanges |-> <<[req |-> req, resp |-> delete.resp]>>,
         store |-> delete.store]

\* contents().unwrap_or_default()
UnwrapOrDefault(contents) == IF contents.some THEN contents.val ELSE <<>>

\* Index of the first object without a key, 0 when every object has one.
FirstKeyless(objs) ==
    IF \E i \in 1..Len(objs) : ~objs[i].key.some
    THEN MinOf({i \in 1..Len(objs) : ~objs[i].key.some})
    ELSE 0

\* Variant of PrintKeys: the loop starts at the second object.
PrintKeysSkipFirst(contents) ==
    LET all == UnwrapOrDefault(contents)
        objs == IF all = <<>> THEN <<>> ELSE Tail(all)
        stop == FirstKeyless(objs)
        n == IF stop = 0 THEN Len(objs) ELSE stop - 1
    IN  [panicked |-> FALSE,
         lines |-> [i \in 1..n |-> KeyLine(objs[i].key.val)]]

\* Variant of PrintKeys: contents().unwrap() instead of unwrap_or_default().
PrintKeysUnwrap(contents) ==
    LET objs == UnwrapOrDefault(contents)
        stop == FirstKeyless(objs)
        n == IF stop = 0 THEN Len(objs) ELSE stop - 1
    IN  [panicked |-> stop # 0 \/ ~contents.some,
         lines |-> [i \in 1..n |-> KeyLine(objs[i].key.val)]]

\* for file in files.contents().unwrap_or_default() { println!(file.key().unwrap()) }
\* prints the keys in order and panics at the first object without a key.
PrintKeys(contents) ==
    LET objs == UnwrapOrDefault(contents)
        stop == FirstKeyless(objs)
        n == IF stop = 0 THEN Len(objs) ELSE stop - 1
    IN  [panicked |-> stop # 0,
         lines |-> [i \in 1..n |-> KeyLine(objs[i].key.val)]]

\* list_objects (not called by main): one list_objects_v2 request; `?` returns
\* the error, otherwise the keys of the answer's contents are printed.
list_objects(client, bucket_name, fault, st, omit) ==
    LET req == Request("ListObjectsV2", bucket_name, 0)
        objects == list_objects_v2_send(req, fault, st, omit)
    IN  IF ~objects.ok
        THEN [ok |-> FALSE, err |-> objects.err, panicked |-> FALSE,
              out |-> <<>>, reqs |-> <<req>>]
        ELSE [ok |-> ~PrintKeys(objects.contents).panicked, err |-> "",
              panicked |-> PrintKeys(objects.contents).panicked,
              out |-> <<Line("Objects in bucket:")>> \o PrintKeys(objects.contents).lines,
              reqs |-> <<req>>]

\* ------------------------------------------------------------- main
NoListing ==
    [ok |-> FALSE, err |-> "", contents |-> NoContents,
     is_truncated |-> FALSE, next_continuation_token |-> NoneKey]

PanicLine(what) == ErrLine(<<"panicked: unwrap on ", what>>)

InitRun ==
    /\ configFile \in ConfigFiles
    /\ localFile \in [runs -> BOOLEAN]
    /\ pc = [r \in runs |-> "load_config"]
    /\ configuration = [r \in runs |-> NoConfiguration]
    /\ aws_client = [r \in runs |-> NoClient]
    /\ files = [r \in runs |-> NoListing]
    /\ calls = [r \in runs |-> <<>>]
    /\ sent = [r \in runs |-> <<>>]
    /\ stdout = [r \in runs |-> <<>>]
    /\ stderr = [r \in runs |-> <<>>]
    /\ exitCode = [r \in runs |-> {}]

\* One run of the program.
Init ==
    /\ runs = {"r1"}
    /\ store \in SUBSET Keys
    /\ omitKeyOf \in {0} \cup store
    /\ InitRun

\* One run, or two runs against the same bucket; the bucket holds at most
\* one object besides test_file.txt and its listings carry every key.
InitConcurrent ==
    /\ runs \in {{"r1"}, RunIds}
    /\ store \in {S \in SUBSET Keys : Cardinality(S \ {TestFile}) <= 1}
    /\ omitKeyOf = 0
    /\ InitRun

\* The process ends with the given status.
Exit(r, code) ==
    /\ pc' = [pc EXCEPT ![r] = "exited"]
    /\ exitCode' = [exitCode EXCEPT ![r] = {code}]

\* let configuration = S3Configuration::new();
LoadConfig(r) ==
    /\ pc[r] = "load_config"
    /\ LET c == S3ConfigurationNew(configFile)
       IN  /\ stderr' = [stderr EXCEPT ![r] = @ \o c.err]
           /\ IF c.panicked
              THEN /\ Exit(r, ExitPanic)
                   /\ UNCHANGED configuration
              ELSE /\ configuration' = [configuration EXCEPT ![r] = c.value]
                   /\ pc' = [pc EXCEPT ![r] = "get_client"]
                   /\ UNCHANGED exitCode
    /\ UNCHANGED <<runs, configFile, store, omitKeyOf, localFile, aws_client, files, calls,
                   sent, stdout>>

\* let creds = Credentials::from_keys(..); let aws_client = get_client(..);
GetClient(r) ==
    /\ pc[r] = "get_client"
    /\ LET creds == CredentialsFromKeys(configuration[r].backup_s3_access_key_id,
                                        configuration[r].backup_s3_secret_access_key)
           c == get_client(creds, configuration[r].backup_s3_region,
                           configuration[r].backup_s3_endpoint)
       IN  IF c.panicked
           THEN /\ Exit(r, ExitPanic)
                /\ stderr' = [stderr EXCEPT ![r] = Append(@, PanicLine("Err(InvalidUri)"))]
                /\ UNCHANGED aws_client
           ELSE /\ aws_client' = [aws_client EXCEPT ![r] = c.client]
                /\ pc' = [pc EXCEPT ![r] = "list"]
                /\ UNCHANGED <<exitCode, stderr>>
    /\ UNCHANGED <<runs, configFile, store, omitKeyOf, localFile, configuration, files, calls,
                   sent, stdout>>

\* The listing of main: one list_objects_v2 request; on Err, eprintln and
\* exit(1); on Ok, the two header lines and the key of each object of the
\* answer (unwrap: panic at an object without a key).
ListFiles(r) ==
    /\ pc[r] = "list"
    /\ \E fault \in Faults :
         LET req == Request("ListObjectsV2", configuration[r].backup_s3_bucket, 0)
             bucketlist == list_objects_v2_send(req, fault, store, omitKeyOf)
             printed == PrintKeys(bucketlist.contents)
         IN  /\ sent' = [sent EXCEPT ![r] = Append(@, req)]
             /\ files' = [files EXCEPT ![r] = bucketlist]
             /\ IF ~bucketlist.ok
                THEN /\ stderr' = [stderr EXCEPT ![r] =
                            Append(@, ErrLine(<<"Failed to pull files: ", bucketlist.err>>))]
                     /\ Exit(r, ExitListFailure)
                     /\ UNCHANGED stdout
                ELSE /\ stdout' = [stdout EXCEPT ![r] =
                            @ \o <<Line("listing files..."), Line("================")>>
                              \o printed.lines]
                     /\ IF printed.panicked
                        THEN /\ Exit(r, ExitPanic)
                             /\ stderr' = [stderr EXCEPT ![r] = Append(@, PanicLine("None"))]
                        ELSE /\ pc' = [pc EXCEPT ![r] = "upload"]
                             /\ UNCHANGED <<exitCode, stderr>>
    /\ UNCHANGED <<runs, configFile, store, omitKeyOf, localFile, configuration, aws_client, calls>>

\* println!(banner); eprintln!("{:?}", <operation>(..).await): the banner on
\* standard output, the operation's requests, its result on standard error.
Report(r, fn, banner, res) ==
    /\ stdout' = [stdout EXCEPT ![r] = Append(@, Line(banner))]
    /\ calls' = [calls EXCEPT ![r] =
            Append(@, [fn |-> fn, filename |-> TestFile,
                       bucket |-> configuration[r].backup_s3_bucket,
                       ret |-> res.ret, exchanges |-> res.exchanges])]
    /\ sent' = [sent EXCEPT ![r] =
            @ \o [i \in 1..Len(res.exchanges) |-> res.exchanges[i].req]]
    /\ stderr' = [stderr EXCEPT ![r] = Append(@, res.ret)]
    /\ store' = res.store

\* println!("Uploading test_file.txt"); eprintln!(s3_upload_file(..).await)
UploadFile(r) ==
    /\ pc[r] = "upload"
    /\ \E fault \in Faults :
         Report(r, "s3_upload_file", "Uploading test_file.txt",
                s3_upload_file(TestFile, aws_client[r],
                               configuration[r].backup_s3_bucket, localFile[r], fault, store))
    /\ pc' = [pc EXCEPT ![r] = "head"]
    /\ UNCHANGED <<runs, configFile, omitKeyOf, localFile, configuration, aws_client, files, exitCode>>

\* println!("HEAD test_file.txt"); eprintln!(s3_head_file(..).await)
HeadFile(r) ==
    /\ pc[r] = "head"
    /\ \E fault \in Faults :
         Report(r, "s3_head_file", "HEAD test_file.txt",
                s3_head_file(TestFile, aws_client[r],
                             configuration[r].backup_s3_bucket, fault, store))
    /\ pc' = [pc EXCEPT ![r] = "delete"]
    /\ UNCHANGED <<runs, configFile, omitKeyOf, localFile, configuration, aws_client, files, exitCode>>

\* println!("DELETE test_file.txt"); eprintln!(s3_delete_file(..).await);
\* main returns.
DeleteFile(r) ==
    /\ pc[r] = "delete"
    /\ \E fault \in Faults :
         Report(r, "s3_delete_file", "DELETE test_file.txt",
                s3_delete_file(TestFile, aws_client[r],
                               configuration[r].backup_s3_bucket, fault, store))
    /\ Exit(r, ExitOk)
    /\ UNCHANGED <<runs, configFile, omitKeyOf, localFile, configuration, aws_client, files>>

Next ==
    \/ \E r \in runs : LoadConfig(r)
    \/ \E r \in runs : GetClient(r)
    \/ \E r \in runs : ListFiles(r)
    \/ \E r \in runs : UploadFile(r)
    \/ \E r \in runs : HeadFile(r)
    \/ \E r \in runs : DeleteFile(r)

Spec == Init /\ [][Next]_vars

SpecConcurrent == InitConcurrent /\ [][Next]_vars

\* ------------------------------------------------------------- claims
\* The keys printed by the listing loop, in order.
IsKeyLine(l) == l.text = "{}"

ListedKeys(out) ==
    LET ls == SelectSeq(out, IsKeyLine) IN [i \in 1..Len(ls) |-> ls[i].key]

\* The listing request of run r was sent and answered.
Listed(r) == pc[r] \notin {"load_config", "get_client", "list"} /\ sent[r] # <<>>

ListRequests(r) == SelectSeq(sent[r], LAMBDA q : q.op = "ListObjectsV2")

ScriptedCalls == <<"s3_upload_file", "s3_head_file", "s3_delete_file">>

\* C1: in every run whose bucket listing succeeds, main calls the upload,
\* then the head, then the delete of test_file.txt, once each, in that order
\* and with the configured bucket, whatever each earlier step returned; none
\* of them is called before the listing has returned.
C1_ScriptedCycleAfterListing ==
    \A r \in runs :
        /\ Len(calls[r]) <= 3
        /\ \A i \in 1..Len(calls[r]) :
              /\ calls[r][i].fn = ScriptedCalls[i]
              /\ calls[r][i].filename = TestFile
              /\ calls[r][i].bucket = configFile.backup_s3_bucket.val
        /\ (calls[r] # <<>>) => (Listed(r) /\ files[r].ok)
        /\ (pc[r] = "exited" /\ Listed(r) /\ files[r].ok) => Len(calls[r]) = 3

ConfigLoads ==
    /\ configFile.status = "ok"
    /\ configFile.backup_s3_access_key_id.some
    /\ configFile.backup_s3_secret_access_key.some
    /\ configFile.backup_s3_bucket.some
    /\ configFile.backup_s3_region.some

EndpointParses ==
    configFile.backup_s3_endpoint.some => configFile.backup_s3_endpoint.val = ValidUri

KeylessListed(r) ==
    \E i \in 1..Len(files[r].contents.val) : ~files[r].contents.val[i].key.some

\* C2 (as stated): the exit status is 1 when the listing fails, and then no
\* upload, head or delete was issued; it is 0 in every other case.
C2_ExitOneOnListFailureElseZero ==
    \A r \in runs :
        pc[r] = "exited" =>
            IF sent[r] # <<>> /\ ~files[r].ok
            THEN exitCode[r] = {1} /\ calls[r] = <<>>
            ELSE exitCode[r] = {0}

\* C2 (amended): the exit status is 1 when the listing fails, and then no
\* upload, head or delete was issued; it is 101 (panic) when config.toml
\* cannot be loaded, when the configured endpoint is not a URI, or when a
\* listed object has no key, each before any upload, head or delete; it is 0
\* in every other case, whatever upload, head and delete returned.
C2_ExitStatusByCause ==
    \A r \in runs :
        pc[r] = "exited" =>
            IF ~ConfigLoads \/ ~EndpointParses
            THEN exitCode[r] = {101} /\ sent[r] = <<>> /\ calls[r] = <<>>
            ELSE IF ~files[r].ok
            THEN exitCode[r] = {1} /\ calls[r] = <<>> /\ Len(sent[r]) = 1
            ELSE IF KeylessListed(r)
            THEN exitCode[r] = {101} /\ calls[r] = <<>>
            ELSE exitCode[r] = {0} /\ Len(calls[r]) = 3

\* A run that ended after its listing request failed.
C2_ListFailureExit ==
    \E r \in runs : pc[r] = "exited" /\ sent[r] # <<>> /\ ~files[r].ok

HeadCalls(r) == SelectSeq(calls[r], LAMBDA c : c.fn = "s3_head_file")

AnsweredNotFound(c) == c.exchanges # <<>> /\ c.exchanges[1].resp.err = NotFoundError

FailedOtherwise(c) ==
    /\ c.exchanges # <<>>
    /\ ~c.exchanges[1].resp.ok
    /\ c.exchanges[1].resp.err # NotFoundError

\* C3 (as stated): a head answered HTTP 404 returns a NotFound outcome,
\* distinct from what a transport or other head failure returns.
C3_HeadNotFoundIsDistinctOutcome ==
    \A r \in runs : \A i \in 1..Len(HeadCalls(r)) :
        AnsweredNotFound(HeadCalls(r)[i]) =>
            /\ HeadCalls(r)[i].ret.variant = "NotFound"
            /\ HeadCalls(r)[i].ret.variant # "HeadError"

\* C3 (amended): a head answered HTTP 404 returns Err(HeadError(..)), the
\* same variant as a transport or other head failure returns; only the text
\* inside (the SDK error's debug form) tells them apart.
C3_HeadNotFoundIsHeadError ==
    \A r \in runs : \A i \in 1..Len(HeadCalls(r)) :
        LET c == HeadCalls(r)[i]
        IN  /\ AnsweredNotFound(c) =>
                c.ret = Err("HeadError", <<"Failed head_object() file: ", NotFoundError>>)
            /\ FailedOtherwise(c) =>
                /\ c.ret.tag = "Err"
                /\ c.ret.variant = "HeadError"
                /\ c.ret.text = <<"Failed head_object() file: ", c.exchanges[1].resp.err>>
            /\ c.ret.tag = "Ok" <=> c.exchanges[1].resp.ok

\* A head of test_file.txt was answered 404.
C3_HeadAnsweredNotFound ==
    \E r \in runs : \E i \in 1..Len(HeadCalls(r)) : AnsweredNotFound(HeadCalls(r)[i])

FirstPage(st) == SubSeq(SortedSeq(st), 1, MinNat(PageSize, Cardinality(st)))

\* C4 (as stated): a listing whose objects span several pages follows each
\* continuation token and reports every object of every page, in order.
\* (With one run, the bucket at pc = "upload" is the bucket that was listed.)
C4_ListsEveryPage ==
    \A r \in runs :
        (pc[r] = "upload" /\ omitKeyOf = 0) => ListedKeys(stdout[r]) = SortedSeq(store)

\* C4 (amended): a listing sends one request without continuation token and
\* reports the objects of the first page only, in order; the continuation
\* token of a truncated answer is never used.  The same holds of list_objects.
C4_ListsFirstPageOnly ==
    \A r \in runs :
        (pc[r] = "upload" /\ omitKeyOf = 0) =>
            /\ ListedKeys(stdout[r]) = FirstPage(store)
            /\ Len(ListRequests(r)) = 1
            /\ ~ListRequests(r)[1].token.some
            /\ files[r].is_truncated <=> Cardinality(store) > PageSize
            /\ files[r].next_continuation_token.some <=> Cardinality(store) > PageSize
            /\ LET lo == list_objects(aws_client[r], configuration[r].backup_s3_bucket,
                                      "none", store, omitKeyOf)
               IN  /\ lo.ok
                   /\ ListedKeys(lo.out) = FirstPage(store)
                   /\ Len(lo.reqs) = 1
                   /\ ~lo.reqs[1].token.some

\* A listing of a bucket of three pages (PageSize, PageSize and one more
\* object) has returned.
C4_ThreePageBucketListed ==
    \E r \in runs :
        /\ pc[r] = "upload"
        /\ omitKeyOf = 0
        /\ Cardinality(store) = 2 * PageSize + 1
        /\ files[r].is_truncated

SomeMandatoryAbsent ==
    /\ configFile.status = "ok"
    /\ \/ ~configFile.backup_s3_access_key_id.some
       \/ ~configFile.backup_s3_secret_access_key.some
       \/ ~configFile.backup_s3_bucket.some
       \/ ~configFile.backup_s3_region.some

\* C5: when any of the four mandatory configuration fields is absent the
\* program fails at startup (panic in S3Configuration::new) before any
\* request is sent; when only the endpoint is absent startup does not fail,
\* and the client uses the default endpoint.
C5_MandatoryFieldsOptionalEndpoint ==
    \A r \in runs :
        /\ SomeMandatoryAbsent =>
              /\ sent[r] = <<>>
              /\ pc[r] \in {"load_config", "exited"}
              /\ pc[r] = "exited" => exitCode[r] = {101}
        /\ (ConfigLoads /\ ~configFile.backup_s3_endpoint.some) =>
              /\ pc[r] = "exited" => sent[r] # <<>>
              /\ pc[r] \notin {"load_config", "get_client"} =>
                    aws_client[r].endpoint = DefaultEndpoint

\* A run that failed at startup because only backup_s3_bucket is absent.
C5_OnlyBucketAbsentFailed ==
    \E r \in runs :
        /\ pc[r] = "exited"
        /\ configFile.status = "ok"
        /\ ~configFile.backup_s3_bucket.some
        /\ configFile.backup_s3_access_key_id.some
        /\ configFile.backup_s3_secret_access_key.some
        /\ configFile.backup_s3_region.some

ErrVariants(fn) ==
    IF fn = "s3_upload_file" THEN {"FileOpenFail", "UploadFailure"}
    ELSE IF fn = "s3_head_file" THEN {"HeadError"}
    ELSE {"DeleteFailure"}

ReportedResults(r) == SelectSeq(stderr[r], LAMBDA e : e.tag # "line")

\* C6: every call of s3_upload_file, s3_head_file and s3_delete_file returns
\* either Ok or one error of its own kind (upload: FileOpenFail or
\* UploadFailure; head: HeadError; delete: DeleteFailure), and main prints
\* each returned value on standard error, in call order.
C6_OneResultPerCallReported ==
    \A r \in runs :
        /\ \A i \in 1..Len(calls[r]) :
              \/ calls[r][i].ret.tag = "Ok" /\ calls[r][i].ret.variant = "String"
              \/ /\ calls[r][i].ret.tag = "Err"
                 /\ calls[r][i].ret.variant \in ErrVariants(calls[r][i].fn)
        /\ ReportedResults(r) = [i \in 1..Len(calls[r]) |-> calls[r][i].ret]

\* A run in which upload, head and delete each returned an error.
C6_ThreeErrorsReported ==
    \E r \in runs :
        /\ Len(calls[r]) = 3
        /\ \A i \in 1..3 : calls[r][i].ret.tag = "Err"
        /\ Len(ReportedResults(r)) = 3

RECURSIVE ExchangeCount(_)
ExchangeCount(cs) ==
    IF cs = <<>> THEN 0 ELSE Len(cs[1].exchanges) + ExchangeCount(Tail(cs))

C8_EmptyBucketListsNothing ==
    \A r \in runs :
        /\ (Listed(r) /\ files[r].ok /\ ~files[r].contents.some) =>
              /\ ListedKeys(stdout[r]) = <<>>
              /\ exitCode[r] \in {{}, {0}}
              /\ pc[r] = "exited" => Len(calls[r]) = 3
        /\ (pc[r] = "list" /\ store = {}) =>
              LET answer == list_objects_v2_send(
                                Request("ListObjectsV2", configuration[r].backup_s3_bucket, 0),
                                "none", store, omitKeyOf)
                  lo == list_objects(aws_client[r], configuration[r].backup_s3_bucket,
                                     "none", store, omitKeyOf)
              IN  /\ answer.ok /\ ~answer.contents.some
                  /\ ~PrintKeys(answer.contents).panicked
                  /\ lo.ok /\ ListedKeys(lo.out) = <<>>
        /\ (pc[r] = "upload" /\ store = {}) => (files[r].ok /\ ~files[r].contents.some)

\* The listing of an empty bucket has returned and the run is at the upload.
C8_EmptyBucketListed ==
    \E r \in runs : pc[r] = "upload" /\ store = {} /\ files[r].ok

UploadCalls(r) == SelectSeq(calls[r], LAMBDA c : c.fn = "s3_upload_file")

PutRequests(r) == SelectSeq(sent[r], LAMBDA q : q.op = "PutObject")

\* C9: when test_file.txt does not open, s3_upload_file returns FileOpenFail
\* and no PUT request is sent; it returns UploadFailure only when a PUT
\* request was sent and its send() reported a failure.
C9_FileOpenFailSendsNoPut ==
    \A r \in runs : \A i \in 1..Len(UploadCalls(r)) :
        LET c == UploadCalls(r)[i]
        IN  /\ ~localFile[r] =>
                /\ c.ret.tag = "Err" /\ c.ret.variant = "FileOpenFail"
                /\ c.exchanges = <<>>
                /\ PutRequests(r) = <<>>
            /\ c.ret.variant = "UploadFailure" =>
                /\ localFile[r]
                /\ Len(c.exchanges) = 1
                /\ c.exchanges[1].req.op = "PutObject"
                /\ ~c.exchanges[1].resp.ok
                /\ Len(PutRequests(r)) = 1

\* An upload has returned although test_file.txt does not open.
C9_UploadWithoutFile ==
    \E r \in runs : ~localFile[r] /\ UploadCalls(r) # <<>>

\* C10: with a single run and no other client on the bucket, an upload that
\* returned Ok is followed by a head that does not find test_file.txt
\* absent: the key is in the bucket when the head is sent, and the head is
\* never answered 404.  (With two runs there is an interleaving in which a
\* run's upload returned Ok and its head is answered 404: C10_OwnHeadMisses.)
C10_SingleRunHeadFindsKey ==
    runs = {"r1"} =>
        \A r \in runs :
            (UploadCalls(r) # <<>> /\ UploadCalls(r)[1].ret.tag = "Ok") =>
                /\ pc[r] = "head" => TestFile \in store
                /\ \A i \in 1..Len(HeadCalls(r)) : ~AnsweredNotFound(HeadCalls(r)[i])

\* Two runs: r1's upload returned Ok, r2's delete fell before r1's head, and
\* r1's head was answered 404.
C10_OwnHeadMisses ==
    /\ runs = RunIds
    /\ UploadCalls("r1") # <<>>
    /\ UploadCalls("r1")[1].ret.tag = "Ok"
    /\ HeadCalls("r1") # <<>>
    /\ AnsweredNotFound(HeadCalls("r1")[1])
    /\ Len(calls["r2"]) = 3

====
